---------------------------- MODULE Spec2Model ----------------------------
(***************************************************************************)
(* A model of OutputTransformer.transform (src/output_transformer.py) and  *)
(* of the helpers it calls.  The source is Python 2: filter() returns a    *)
(* list, and an ordering comparison of a datetime with a value of another  *)
(* type raises TypeError.                                                  *)
(*                                                                         *)
(* Python values are tagged records, one field name per Python type:       *)
(*   [none |-> TRUE]   None          [str  |-> "x"]    a string            *)
(*   [int  |-> 3]      an integer    [bool |-> TRUE]   a boolean           *)
(*   [datetime |-> n]  a datetime    [list |-> <<..>>] a list              *)
(*   [dict |-> f]      a dict, f a function from key strings to values     *)
(*   [ref  |-> j]      the very object financials[j] of the same record    *)
(*                     (an alias, not a copy)                              *)
(* A record of the batch is the function f of its dict.                    *)
(***************************************************************************)
EXTENDS Integers, Sequences, FiniteSets, TLC

VARIABLES
    helper_map, \* helper_map.company, the static field map
    input,      \* the records as they were passed to the first transform call
    results,    \* the records of the batch, mutated in place
    idx,        \* position of the for loop of transform in results
    pc,         \* the step of the loop body that runs next
    status,     \* "running", "returned" or "raised"
    error,      \* the exception that ended the call, "" when none
    pass        \* 1 in the first transform call, 2 in a second call on its output

vars == <<helper_map, input, results, idx, pc, status, error, pass>>

---------------------------------------------------------------------------
(* Python values *)

PyNone == [none |-> TRUE]
PyStr(s) == [str |-> s]
PyInt(n) == [int |-> n]
PyBool(b) == [bool |-> b]
PyDatetime(n) == [datetime |-> n]
PyList(l) == [list |-> l]
PyDict(d) == [dict |-> d]
PyRef(j) == [ref |-> j]

IsNone(v) == "none" \in DOMAIN v
IsStr(v) == "str" \in DOMAIN v
IsInt(v) == "int" \in DOMAIN v
IsBool(v) == "bool" \in DOMAIN v
IsDatetime(v) == "datetime" \in DOMAIN v
IsList(v) == "list" \in DOMAIN v
IsDict(v) == "dict" \in DOMAIN v
IsRef(v) == "ref" \in DOMAIN v

\* Python truth value of v.
Truthy(v) ==
    CASE IsNone(v) -> FALSE
      [] IsStr(v) -> v.str # ""
      [] IsInt(v) -> v.int # 0
      [] IsBool(v) -> v.bool
      [] IsList(v) -> v.list # <<>>
      [] IsDict(v) -> DOMAIN v.dict # {}
      [] OTHER -> TRUE

EmptyDoc == <<>>

\* d[k] = v
Set(d, k, v) == [x \in DOMAIN d \cup {k} |-> IF x = k THEN v ELSE d[x]]
\* d.get(k, default)
Get(d, k, default) == IF k \in DOMAIN d THEN d[k] ELSE default
\* d.pop(k, None) / del d[k], as the dict that is left
Pop(d, k) == [x \in DOMAIN d \ {k} |-> d[x]]
\* d.update(e)
Update(d, e) == [x \in DOMAIN d \cup DOMAIN e |-> IF x \in DOMAIN e THEN e[x] ELSE d[x]]

Range(s) == {s[i] : i \in 1..Len(s)}
SeqsUpTo(S, n) == UNION {[1..k -> S] : k \in 0..n}

\* The outcome of a step on a record: the record as the step left it, and the
\* exception it raised ("" when it completed).
Done(rec) == [rec |-> rec, exc |-> ""]
Raise(rec, e) == [rec |-> rec, exc |-> e]

---------------------------------------------------------------------------
(* The collaborators of api.formatting and api.database, by their contracts *)

\* beautify.pretty_text: normalises the casing of a name-like string.
PrettyStr(s) ==
    CASE s = "acme ltd" -> "Acme Ltd"
      [] s = "ann" -> "Ann"
      [] s = "bob" -> "Bob"
      [] s = "cat" -> "Cat"
      [] s = "dan" -> "Dan"
      [] s = "mr" -> "Mr"
      [] s = "acme home" -> "Acme Home"
      [] OTHER -> s
pretty_text(v) == IF IsStr(v) THEN PyStr(PrettyStr(v.str)) ELSE v

\* beautify.title_or_upper_director_role
title_or_upper_director_role(v) ==
    IF ~IsStr(v) THEN v
    ELSE CASE v.str = "director" -> PyStr("Director")
           [] v.str = "ceo" -> PyStr("CEO")
           [] OTHER -> v

\* beautify.pretty_contact_types: the display label of each stored type.
PrettyType(v) ==
    IF ~IsStr(v) THEN v
    ELSE CASE v.str = "primary contact" -> PyStr("Primary Contact")
           [] v.str = "other" -> PyStr("Other")
           [] OTHER -> v
pretty_contact_types(v) ==
    IF IsList(v) THEN PyList([i \in 1..Len(v.list) |-> PrettyType(v.list[i])]) ELSE v

\* beautify.postcode(str|None) -> str
postcode(v) ==
    CASE IsNone(v) -> PyStr("")
      [] IsStr(v) /\ v.str = "sw1a1aa" -> PyStr("SW1A 1AA")
      [] OTHER -> v

\* beautify.addresses(postcode, *line_values) -> str: the line values in the
\* order given, each followed by ", ", then the postcode.
RECURSIVE JoinLines(_)
JoinLines(vals) ==
    IF vals = <<>> THEN ""
    ELSE (IF IsStr(Head(vals)) THEN Head(vals).str ELSE "?") \o ", " \o JoinLines(Tail(vals))
addresses(pcode, vals) ==
    PyStr(JoinLines(vals) \o (IF IsStr(pcode) THEN pcode.str ELSE "?"))

\* beautify.boolean(bool|None) -> str; its own output is left as it is.
boolean(v) ==
    CASE IsStr(v) -> v
      [] Truthy(v) -> PyStr("Yes")
      [] OTHER -> PyStr("No")

\* beautify.money(number|None) -> str; its own output is left as it is.
money(v) ==
    CASE IsInt(v) -> PyStr("GBP " \o ToString(v.int))
      [] IsNone(v) -> PyStr("")
      [] OTHER -> v

\* ranges.employee_range
employee_range(v) ==
    CASE IsInt(v) /\ v.int < 50 -> PyStr("1-49")
      [] IsInt(v) -> PyStr("50+")
      [] IsNone(v) -> PyStr("Unknown")
      [] OTHER -> v

\* ranges.revenue_range(value, infix): value is a period document or the bare
\* number 0; the bucket of its turnover, the bounds joined by infix.
DefaultInfix == "-"
revenue_range(value, infix) ==
    LET t == IF IsDict(value) THEN Get(value.dict, "turnover", PyNone) ELSE value
    IN  CASE IsInt(t) /\ t.int = 0 -> PyStr("Unknown")
          [] IsInt(t) /\ t.int < 5000000 -> PyStr("1m" \o infix \o "5m")
          [] IsInt(t) -> PyStr("5m" \o infix \o "10m")
          [] OTHER -> PyStr("Unknown")

\* MySQL.get_score(id): the ids the database knows; any other id raises.
Scores == (1 :> 70) @@ (2 :> 35)
ScoreKnown(id) == IsInt(id) /\ id.int \in DOMAIN Scores
get_score(id) == PyInt(Scores[id.int])

\* helper_map.monetary_fields
monetary_fields == [credit |-> <<"limit">>, financials |-> <<"turnover", "profit">>]

\* A helper of helper_map.company is a formatter, [fn |-> name], or a nested
\* map of helpers, [map |-> f].
Fn(name) == [fn |-> name]
SubMap(f) == [map |-> f]
Call(helper, value) ==
    CASE helper.fn = "pretty_text" -> pretty_text(value)
      [] helper.fn = "employee_range" -> employee_range(value)
      [] helper.fn = "postcode" -> postcode(value)
      [] OTHER -> value

---------------------------------------------------------------------------
(* transform, lines 22-25: copy the values returned formatted and unformatted *)

old_keys == <<"name", "num_empl">>
new_keys == <<"legal_name", "employee_range">>

RECURSIVE CopyKeys(_, _)
CopyKeys(result, i) ==
    IF i > Len(new_keys) \/ i > Len(old_keys) THEN result
    ELSE CopyKeys(Set(result, new_keys[i], Get(result, old_keys[i], PyNone)), i + 1)

transform_copy_noop(result) == Done(result)
transform_copy(result) == Done(CopyKeys(result, 1))

(* _beautify_doc, lines 74-101 *)

\* The same when a key with no helper is not copied (lines 97-99 left out).
RECURSIVE _beautify_doc_helped_only(_, _)
_beautify_doc_helped_only(doc, helpers) ==
    [key \in DOMAIN doc \cap DOMAIN helpers |->
        IF "map" \in DOMAIN helpers[key]
        THEN IF IsDict(doc[key])
             THEN PyDict(_beautify_doc_helped_only(doc[key].dict, helpers[key].map))
             ELSE doc[key]
        ELSE Call(helpers[key], doc[key])]

RECURSIVE _beautify_doc(_, _)
_beautify_doc(doc, helpers) ==
    [key \in DOMAIN doc |->
        IF key \in DOMAIN helpers
        THEN IF "map" \in DOMAIN helpers[key]
             THEN IF IsDict(doc[key])
                  THEN PyDict(_beautify_doc(doc[key].dict, helpers[key].map))
                  ELSE doc[key]
             ELSE Call(helpers[key], doc[key])
        ELSE doc[key]]

\* transform, line 27
transform_beautify_doc(result, helpers) ==
    Done(Update(result, _beautify_doc(result, helpers)))

(* transform, line 29: the score lookup; nothing catches what it raises *)

transform_score_swallow(result) ==
    IF "id" \in DOMAIN result /\ ScoreKnown(result["id"])
    THEN Done(Set(result, "score", get_score(result["id"])))
    ELSE Done(Set(result, "score", PyNone))

transform_score(result) ==
    IF "id" \notin DOMAIN result THEN Raise(result, "KeyError")
    ELSE IF ~ScoreKnown(result["id"]) THEN Raise(result, "LookupError")
    ELSE Done(Set(result, "score", get_score(result["id"])))

(* _beautify_addresses, lines 124-168 *)

address_keys ==
    << "address_line_1", "address_line_2", "address_line_3", "address_line_4",
       "department_name", "building", "po_box", "street_address", "locality",
       "town", "county" >>

\* The loop over keys, lines 155-162, from key i on: the doc and vals it leaves.
RECURSIVE AddressLines(_, _, _, _)
AddressLines(doc, vals, is_registered, i) ==
    IF i > Len(address_keys) THEN [doc |-> doc, vals |-> vals]
    ELSE LET key == address_keys[i]
         IN  IF key \in DOMAIN doc
             THEN AddressLines(IF ~Truthy(is_registered) THEN Pop(doc, key) ELSE doc,
                               Append(vals, doc[key]), is_registered, i + 1)
             ELSE AddressLines(doc, vals, is_registered, i + 1)

\* The body of "for doc in docs", with every line key retained.
_beautify_address_keep(doc) ==
    LET d1 == Set(doc, "postcode", postcode(Get(doc, "postcode", PyNone)))
        l == AddressLines(d1, <<>>, PyBool(TRUE), 1)
        d2 == Set(l.doc, "address", addresses(l.doc["postcode"], l.vals))
        d3 == Set(d2, "is_registered", boolean(Get(d2, "is_registered", PyNone)))
    IN  Pop(d3, "uid")

\* The body of "for doc in docs", lines 134-166.
_beautify_address(doc) ==
    LET d1 == Set(doc, "postcode", postcode(Get(doc, "postcode", PyNone)))
        is_registered == Get(d1, "is_registered", PyNone)
        l == AddressLines(d1, <<>>, is_registered, 1)
        d2 == Set(l.doc, "address", addresses(l.doc["postcode"], l.vals))
        d3 == Set(d2, "is_registered", boolean(Get(d2, "is_registered", PyNone)))
    IN  Pop(d3, "uid")

_beautify_addresses(docs) ==
    [i \in 1..Len(docs) |-> PyDict(_beautify_address(docs[i].dict))]

\* transform, lines 32-33
transform_addresses(result) ==
    IF "addresses" \in DOMAIN result
    THEN Done(Set(result, "addresses",
                  PyList(_beautify_addresses(result["addresses"].list))))
    ELSE Done(result)

(* _beautify_people, lines 104-121 *)

people_keys == <<"first_name", "last_name", "name", "title">>

_beautify_person(doc) ==
    LET d1 == [k \in DOMAIN doc |->
                  IF k \in Range(people_keys) THEN pretty_text(doc[k]) ELSE doc[k]]
        d2 == IF Truthy(Get(d1, "role", PyNone))
              THEN Set(d1, "role", title_or_upper_director_role(d1["role"]))
              ELSE d1
    IN  IF Truthy(Get(d2, "types", PyNone))
        THEN Set(d2, "types", pretty_contact_types(d2["types"]))
        ELSE d2

_beautify_people(docs) ==
    [i \in 1..Len(docs) |-> PyDict(_beautify_person(docs[i].dict))]

\* transform, lines 35-36
transform_shareholders(result) ==
    IF "shareholders" \in DOMAIN result
    THEN Done(Set(result, "shareholders",
                  PyList(_beautify_people(result["shareholders"].list))))
    ELSE Done(result)

(* _order_contacts, lines 251-269 *)

contact_priority == <<"Primary Contact", "Financial Controller", "Marketing Controller">>

\* t in c["types"]
TypeIn(t, c) == PyStr(t) \in Range(c.dict["types"].list)
\* contacts_array.index(x): the first position whose element equals x
Index(s, x) == CHOOSE i \in 1..Len(s) : s[i] = x /\ \A j \in 1..(i - 1) : s[j] # x
\* the list that s.pop(i) leaves
Remove(s, i) == [j \in 1..(Len(s) - 1) |-> IF j < i THEN s[j] ELSE s[j + 1]]

\* The loop over contact_priority from its k-th type on, then lines 268-269.
\* filter() reads c["types"] of every contact of contacts_array.
RECURSIVE OrderLoop(_, _, _)
OrderLoop(contacts_array, sorted_contacts, k) ==
    IF k > Len(contact_priority)
    THEN [val |-> sorted_contacts \o contacts_array, exc |-> ""]
    ELSE IF \E j \in 1..Len(contacts_array) : "types" \notin DOMAIN contacts_array[j].dict
    THEN [val |-> contacts_array, exc |-> "KeyError"]
    ELSE LET contact == SelectSeq(contacts_array,
                                  LAMBDA c : TypeIn(contact_priority[k], c))
         IN  IF contact # <<>>
             THEN LET i == Index(contacts_array, contact[1])
                  IN  OrderLoop(Remove(contacts_array, i),
                                Append(sorted_contacts, contacts_array[i]), k + 1)
             ELSE OrderLoop(contacts_array, sorted_contacts, k + 1)

\* The same loop when the contact found is appended but not popped.
RECURSIVE OrderLoopNoPop(_, _, _)
OrderLoopNoPop(contacts_array, sorted_contacts, k) ==
    IF k > Len(contact_priority)
    THEN [val |-> sorted_contacts \o contacts_array, exc |-> ""]
    ELSE IF \E j \in 1..Len(contacts_array) : "types" \notin DOMAIN contacts_array[j].dict
    THEN [val |-> contacts_array, exc |-> "KeyError"]
    ELSE LET contact == SelectSeq(contacts_array,
                                  LAMBDA c : TypeIn(contact_priority[k], c))
         IN  IF contact # <<>>
             THEN OrderLoopNoPop(contacts_array, Append(sorted_contacts, contact[1]), k + 1)
             ELSE OrderLoopNoPop(contacts_array, sorted_contacts, k + 1)

_order_contacts_no_pop(contacts_array) == OrderLoopNoPop(contacts_array, <<>>, 1)

_order_contacts(contacts_array) == OrderLoop(contacts_array, <<>>, 1)

\* transform, lines 38-40
transform_contacts(result) ==
    IF "contacts" \in DOMAIN result
    THEN LET people == _beautify_people(result["contacts"].list)
             ordered == _order_contacts(people)
         IN  IF ordered.exc # ""
             THEN Raise(Set(result, "contacts", PyList(people)), ordered.exc)
             ELSE Done(Set(result, "contacts", PyList(ordered.val)))
    ELSE Done(result)

(* _beautify_incorp_date, lines 187-199 *)

\* strptime(text, "%Y-%m-%d") then strftime("%d %b %Y"), on the texts that
\* parse; strptime raises on any other text and on a value that is no string.
Reformatted ==
    ("2019-03-05" :> "05 Mar 2019") @@ ("2001-12-31" :> "31 Dec 2001")

_beautify_incorp_date(text) ==
    IF IsStr(text) /\ text.str \in DOMAIN Reformatted
    THEN PyStr(Reformatted[text.str])
    ELSE PyStr("?")

\* transform, lines 42-44
transform_incorp_date(result) ==
    IF "incorp_date" \in DOMAIN result /\ Truthy(result["incorp_date"])
    THEN Done(Set(result, "incorp_date", _beautify_incorp_date(result["incorp_date"])))
    ELSE Done(result)

(* _beautify_monetary_values, lines 171-184 *)

_beautify_monetary_values(docs, keys) ==
    [i \in 1..Len(docs) |->
        PyDict([k \in DOMAIN docs[i].dict |->
                   IF k \in Range(keys) THEN money(docs[i].dict[k]) ELSE docs[i].dict[k]])]

\* transform, lines 46-48
transform_credit(result) ==
    IF "credit" \in DOMAIN result
    THEN Done(Set(result, "credit",
                  PyList(_beautify_monetary_values(result["credit"].list,
                                                   monetary_fields.credit))))
    ELSE Done(result)

(* transform, lines 50-62: the latest revenue *)

datetime_min == PyDatetime(0)

\* The order of Python 2 on the strings the model uses (ISO dates sort by date).
StrRank(s) ==
    CASE s = "2019-06-30" -> 1
      [] s = "2020-01-01" -> 2
      [] s = "2021-01-01" -> 3
      [] OTHER -> 0

\* a > b raises TypeError when one of a, b is a datetime and the other is not.
Comparable(a, b) == IsDatetime(a) <=> IsDatetime(b)
GreaterThan(a, b) ==
    IF IsDatetime(a) THEN a.datetime > b.datetime
    ELSE StrRank(IF IsStr(a) THEN a.str ELSE "") > StrRank(IF IsStr(b) THEN b.str ELSE "")

\* key=lambda x: x["account_date"] if x["account_date"] else datetime.datetime.min
DateKey(x) == IF Truthy(x["account_date"]) THEN x["account_date"] ELSE datetime_min

\* max(financials, key=...), lines 55-57, over the positions cand of docs, from
\* the n-th on: the position of the maximum (the first one among equals).
RECURSIVE MaxLoop(_, _, _, _)
MaxLoop(docs, cand, best, n) ==
    IF n > Len(cand) THEN [val |-> best, exc |-> ""]
    ELSE LET x == docs[cand[n]].dict
         IN  IF "account_date" \notin DOMAIN x THEN [val |-> best, exc |-> "KeyError"]
             ELSE IF best = 0 THEN MaxLoop(docs, cand, cand[n], n + 1)
             ELSE IF ~Comparable(DateKey(x), DateKey(docs[best].dict))
             THEN [val |-> best, exc |-> "TypeError"]
             ELSE MaxLoop(docs, cand,
                          IF GreaterThan(DateKey(x), DateKey(docs[best].dict))
                          THEN cand[n] ELSE best,
                          n + 1)

\* filter(lambda x: x['turnover'], docs), line 51, as positions of docs
RECURSIVE TurnoverPositions(_, _)
TurnoverPositions(docs, i) ==
    IF i > Len(docs) THEN <<>>
    ELSE (IF Truthy(docs[i].dict["turnover"]) THEN <<i>> ELSE <<>>)
         \o TurnoverPositions(docs, i + 1)

\* What latest_rev is bound to when max() selects docs[j]: a copy of it.
latest_rev_copy(docs, j) == docs[j]
\* What latest_rev is bound to when max() selects docs[j]: that object itself.
latest_rev(docs, j) == PyRef(j)

\* The document a value of the record stands for.
Deref(result, v) == IF IsRef(v) THEN result["financials"].list[v.ref] ELSE v

\* Lines 58-62, once latest_rev is bound to latest.
SetLastRevenue(result, latest) ==
    LET docs == result["financials"].list
        r1 == Set(result, "last_revenue", latest)
        r2 == Set(r1, "last_revenue_range",
                  revenue_range(Deref(result, latest), DefaultInfix))
        r3 == Set(r2, "last_revenue_headline",
                  revenue_range(Deref(result, latest), " to "))
    IN  Set(r3, "financials",
            PyList(_beautify_monetary_values(docs, monetary_fields.financials)))

transform_financials(result) ==
    IF "financials" \notin DOMAIN result THEN Done(result)
    ELSE LET docs == result["financials"].list
         IN  IF \E j \in 1..Len(docs) : "turnover" \notin DOMAIN docs[j].dict
             THEN Raise(result, "KeyError")
             ELSE LET financials == TurnoverPositions(docs, 1)
                      m == MaxLoop(docs, financials, 0, 1)
                  IN  IF financials = <<>> THEN Done(SetLastRevenue(result, PyInt(0)))
                      ELSE IF m.exc # "" THEN Raise(result, m.exc)
                      ELSE Done(SetLastRevenue(result, latest_rev(docs, m.val)))

(* _beautify_family, lines 221-249 *)

parent_name_map(name) ==
    IF name = PyStr("United Kingdom") THEN PyStr("No UK Parent") ELSE name

family_defaults ==
    [uk_top_parent_cid |-> PyNone, uk_top_parent_name |-> PyStr("None"),
     parent_cid |-> PyNone, parent_name |-> PyStr("None"),
     subsidiaries |-> PyList(<<>>)]

\* The loop "for d in docs", lines 239-247, from docs[i] on.
RECURSIVE FamilyLoop(_, _, _)
FamilyLoop(docs, doc, i) ==
    IF i > Len(docs) THEN [val |-> doc, exc |-> ""]
    ELSE LET d == docs[i].dict
         IN  IF "label" \notin DOMAIN d THEN [val |-> doc, exc |-> "KeyError"]
             ELSE IF d["label"] \in {PyStr("uk_top_parent"), PyStr("parent")}
                     /\ ~({"cid", "name"} \subseteq DOMAIN d)
             THEN [val |-> doc, exc |-> "KeyError"]
             ELSE IF d["label"] = PyStr("uk_top_parent")
             THEN FamilyLoop(docs,
                             [doc EXCEPT !.uk_top_parent_cid = d["cid"],
                                         !.uk_top_parent_name = d["name"]], i + 1)
             ELSE IF d["label"] = PyStr("parent")
             THEN FamilyLoop(docs,
                             [doc EXCEPT !.parent_name = parent_name_map(d["name"]),
                                         !.parent_cid = d["cid"]], i + 1)
             ELSE FamilyLoop(docs,
                             [doc EXCEPT !.subsidiaries =
                                  PyList(Append(doc.subsidiaries.list, docs[i]))], i + 1)

\* The same loop when the parent's name is stored without parent_name_map.
RECURSIVE FamilyLoopUnmapped(_, _, _)
FamilyLoopUnmapped(docs, doc, i) ==
    IF i > Len(docs) THEN [val |-> doc, exc |-> ""]
    ELSE LET d == docs[i].dict
         IN  IF "label" \notin DOMAIN d THEN [val |-> doc, exc |-> "KeyError"]
             ELSE IF d["label"] \in {PyStr("uk_top_parent"), PyStr("parent")}
                     /\ ~({"cid", "name"} \subseteq DOMAIN d)
             THEN [val |-> doc, exc |-> "KeyError"]
             ELSE IF d["label"] = PyStr("uk_top_parent")
             THEN FamilyLoopUnmapped(docs,
                             [doc EXCEPT !.uk_top_parent_cid = d["cid"],
                                         !.uk_top_parent_name = d["name"]], i + 1)
             ELSE IF d["label"] = PyStr("parent")
             THEN FamilyLoopUnmapped(docs,
                             [doc EXCEPT !.parent_name = d["name"],
                                         !.parent_cid = d["cid"]], i + 1)
             ELSE FamilyLoopUnmapped(docs,
                             [doc EXCEPT !.subsidiaries =
                                  PyList(Append(doc.subsidiaries.list, docs[i]))], i + 1)

_beautify_family_unmapped(docs) ==
    IF ~Truthy(docs) THEN [val |-> family_defaults, exc |-> ""]
    ELSE FamilyLoopUnmapped(docs.list, family_defaults, 1)

_beautify_family(docs) ==
    IF ~Truthy(docs) THEN [val |-> family_defaults, exc |-> ""]
    ELSE FamilyLoop(docs.list, family_defaults, 1)

\* transform, lines 64-66
transform_family(result) ==
    IF "family" \in DOMAIN result
    THEN LET f == _beautify_family(result["family"])
         IN  IF f.exc # "" THEN Raise(result, f.exc)
             ELSE Done(Pop(Update(result, f.val), "family"))
    ELSE Done(result)

(* _beautify_website, lines 202-218 *)

\* No import or assignment of the module binds the name url_extract (lines
\* 1-4), so evaluating it at line 208 raises NameError.
url_extract_bound == FALSE

\* "".join(url.split()).lower()
CleanUrl(s) ==
    CASE s = "Example.COM " -> "example.com"
      [] s = "shop.example.com/a b" -> "shop.example.com/ab"
      [] OTHER -> s

\* url_extract.url_extract(url) -> (subdomain, domain, tld, path)
url_extract(s) ==
    CASE s = "example.com" ->
            [sub |-> PyNone, domain |-> PyStr("example"), tld |-> PyStr("com"), pages |-> PyNone]
      [] s = "shop.example.com/ab" ->
            [sub |-> PyStr("shop"), domain |-> PyStr("example"), tld |-> PyStr("com"),
             pages |-> PyStr("ab")]
      [] OTHER ->
            [sub |-> PyNone, domain |-> PyNone, tld |-> PyNone, pages |-> PyNone]

_beautify_website(url) ==
    IF IsNone(url) THEN [val |-> PyNone, exc |-> ""]
    ELSE IF ~IsStr(url) THEN [val |-> PyNone, exc |-> "AttributeError"]
    ELSE IF ~url_extract_bound THEN [val |-> PyNone, exc |-> "NameError"]
    ELSE LET u == url_extract(CleanUrl(url.str))
             sub == IF IsNone(u.sub) THEN "www" ELSE u.sub.str
         IN  IF IsNone(u.tld) \/ IsNone(u.domain) THEN [val |-> PyNone, exc |-> ""]
             ELSE [val |-> PyStr(sub \o "." \o u.domain.str \o "." \o u.tld.str
                                 \o (IF IsNone(u.pages) THEN "" ELSE "/" \o u.pages.str)),
                   exc |-> ""]

\* transform, lines 68-69
transform_website(result) ==
    IF IsDict(Get(result, "website", PyNone))
    THEN LET w == _beautify_website(Get(result["website"].dict, "website", PyNone))
         IN  IF w.exc # "" THEN Raise(result, w.exc)
             ELSE Done(Set(result, "website", w.val))
    ELSE Done(result)

---------------------------------------------------------------------------
(* The loop of transform, lines 22-71, one action per step of its body *)

\* The step at pc has run on results[idx] with outcome out: an exception ends
\* the call with the record as the step left it, else the loop goes on.
Step(out, next_pc, next_idx) ==
    /\ results' = [results EXCEPT ![idx] = out.rec]
    /\ IF out.exc = ""
       THEN pc' = next_pc /\ idx' = next_idx /\ status' = status /\ error' = error
       ELSE pc' = pc /\ idx' = idx /\ status' = "raised" /\ error' = out.exc
    /\ UNCHANGED <<helper_map, input, pass>>

At(step) == status = "running" /\ idx <= Len(results) /\ pc = step

Copy == At("copy") /\ Step(transform_copy(results[idx]), "beautify_doc", idx)

BeautifyDoc ==
    At("beautify_doc")
    /\ Step(transform_beautify_doc(results[idx], helper_map), "score", idx)

Score == At("score") /\ Step(transform_score(results[idx]), "addresses", idx)

Addresses ==
    At("addresses") /\ Step(transform_addresses(results[idx]), "shareholders", idx)

Shareholders ==
    At("shareholders") /\ Step(transform_shareholders(results[idx]), "contacts", idx)

Contacts ==
    At("contacts") /\ Step(transform_contacts(results[idx]), "incorp_date", idx)

IncorpDate ==
    At("incorp_date") /\ Step(transform_incorp_date(results[idx]), "credit", idx)

Credit == At("credit") /\ Step(transform_credit(results[idx]), "financials", idx)

Financials ==
    At("financials") /\ Step(transform_financials(results[idx]), "family", idx)

Family == At("family") /\ Step(transform_family(results[idx]), "website", idx)

Website == At("website") /\ Step(transform_website(results[idx]), "copy", idx + 1)

\* line 71: the loop is over, transform returns results
Return ==
    /\ status = "running" /\ idx > Len(results)
    /\ status' = "returned"
    /\ UNCHANGED <<helper_map, input, results, idx, pc, error, pass>>

\* The caller passes the sequence a first call returned to transform again.
TransformAgain ==
    /\ status = "returned" /\ pass = 1
    /\ pass' = 2 /\ idx' = 1 /\ pc' = "copy" /\ status' = "running"
    /\ UNCHANGED <<helper_map, input, results, error>>

NextOnce ==
    \/ Copy \/ BeautifyDoc \/ Score \/ Addresses \/ Shareholders \/ Contacts
    \/ IncorpDate \/ Credit \/ Financials \/ Family \/ Website \/ Return

Next == NextOnce \/ TransformAgain

---------------------------------------------------------------------------
(* Inputs *)

MaxBatch == 3
MaxContacts == 4
MaxFinancials == 3
MaxFamily == 3
MaxAddresses == 3

Doc2(k1, v1, k2, v2) == (k1 :> v1) @@ (k2 :> v2)
Doc3(k1, v1, k2, v2, k3, v3) == (k1 :> v1) @@ (k2 :> v2) @@ (k3 :> v3)
StrList(s) == PyList([i \in 1..Len(s) |-> PyStr(s[i])])
DictList(s) == PyList([i \in 1..Len(s) |-> PyDict(s[i])])
WithKey(rec, k, Lists) == {Set(rec, k, DictList(l)) : l \in Lists}

\* helper_map.company: maps of formatters, nested up to two levels.
HelperNone == EmptyDoc
HelperTypical ==
    Doc3("name", Fn("pretty_text"),
         "employee_range", Fn("employee_range"),
         "website", SubMap("title" :> Fn("pretty_text")))
HelperLegal ==
    Doc3("legal_name", Fn("pretty_text"),
         "num_empl", Fn("employee_range"),
         "sector", Fn("pretty_text"))
HelperNested ==
    Doc2("group", SubMap(Doc2("hq", SubMap("postcode" :> Fn("postcode")),
                              "name", Fn("pretty_text"))),
         "name", Fn("pretty_text"))
HelperMaps == {HelperNone, HelperTypical, HelperLegal, HelperNested}

BaseRecord ==
    Doc3("id", PyInt(1), "name", PyStr("acme ltd"), "incorp_date", PyStr("2019-03-05"))

Init(Batches, Maps) ==
    /\ helper_map \in Maps
    /\ input \in Batches
    /\ results = input
    /\ idx = 1
    /\ pc = "copy"
    /\ status = "running"
    /\ error = ""
    /\ pass = 1

Single(Records) == {<<r>> : r \in Records}

(* contacts *)
Contact(name, types) == Doc2("name", PyStr(name), "types", StrList(types))
ContactDocs ==
    { Contact("ann", <<"Other">>),
      Contact("bob", <<"Primary Contact", "Other">>),
      Contact("ann", <<"Marketing Controller">>),
      Contact("bob", <<"Financial Controller", "Primary Contact">>),
      Contact("cat", <<"primary contact">>),
      Contact("ann", <<>>),
      "name" :> PyStr("bob"),
      Set(Contact("dan", <<"Marketing Controller", "Financial Controller">>),
          "role", PyStr("director")) }
ContactRecords == WithKey(BaseRecord, "contacts", SeqsUpTo(ContactDocs, MaxContacts))
InitContacts == Init(Single(ContactRecords), {HelperTypical})
SpecContacts == InitContacts /\ [][NextOnce]_vars

(* financials *)
Period(turnover, account_date) == Doc2("turnover", turnover, "account_date", account_date)
FinancialDocs ==
    { Period(PyInt(0), PyStr("2021-01-01")),
      Set(Period(PyInt(5000000), PyStr("2020-01-01")), "profit", PyInt(100)),
      Period(PyNone, PyStr("2021-01-01")),
      Period(PyInt(2000000), PyNone),
      Set(Period(PyInt(7000000), PyStr("2019-06-30")), "staff", PyInt(12)),
      Period(PyInt(2000000), PyDatetime(2)),
      Set(Period(PyInt(7000000), PyDatetime(1)), "profit", PyNone),
      "account_date" :> PyStr("2020-01-01"),
      "turnover" :> PyInt(2000000),
      Period(PyInt(0), PyNone) }
FinancialRecords == WithKey(BaseRecord, "financials", SeqsUpTo(FinancialDocs, MaxFinancials))
InitFinancials == Init(Single(FinancialRecords), {HelperTypical})
SpecFinancials == InitFinancials /\ [][NextOnce]_vars

(* family *)
Relation(label, cid, name) ==
    Doc3("label", PyStr(label), "cid", PyInt(cid), "name", PyStr(name))
FamilyDocs ==
    { Relation("uk_top_parent", 10, "Top One"),
      Relation("uk_top_parent", 11, "Top Two"),
      Relation("parent", 1, "United Kingdom"),
      Relation("parent", 20, "Parent Co"),
      Relation("subsidiary", 2, "X"),
      Relation("sister", 3, "United Kingdom"),
      "label" :> PyStr("subsidiary"),
      "cid" :> PyInt(5) }
FamilyRecords ==
    WithKey(BaseRecord, "family", SeqsUpTo(FamilyDocs, MaxFamily))
    \cup {Set(BaseRecord, "family", PyNone),
          Set(Set(BaseRecord, "family", PyNone), "subsidiaries", PyStr("stale"))}
InitFamily == Init(Single(FamilyRecords), {HelperTypical})
SpecFamily == InitFamily /\ [][NextOnce]_vars

(* addresses *)
Lines1 == Doc2("address_line_1", PyStr("1 High St"), "town", PyStr("Leeds"))
Lines2 == Doc3("county", PyStr("Kent"), "building", PyStr("Unit 4"),
               "street_address", PyStr("2 Low Rd"))
Lines3 == Doc3("po_box", PyStr("PO 7"), "address_line_2", PyStr("Floor 2"),
               "locality", PyStr("Soho"))
AddressDocs ==
    { Set(Lines1, "is_registered", PyBool(TRUE)),
      Set(Lines1, "is_registered", PyBool(FALSE)),
      Set(Set(Lines2, "postcode", PyStr("sw1a1aa")), "uid", PyInt(7)),
      Set(Set(Lines2, "is_registered", PyBool(TRUE)), "uid", PyInt(8)),
      Set(Set(Lines3, "is_registered", PyNone), "postcode", PyNone),
      Set(Set(Lines3, "is_registered", PyInt(1)), "postcode", PyStr("sw1a1aa")),
      Set(Update(Lines1, Lines3), "is_registered", PyBool(FALSE)),
      "uid" :> PyInt(9),
      EmptyDoc,
      Doc2("is_registered", PyBool(TRUE), "note", PyStr("keep")) }
AddressRecords == WithKey(BaseRecord, "addresses", SeqsUpTo(AddressDocs, MaxAddresses))
InitAddresses == Init(Single(AddressRecords), {HelperTypical})
SpecAddresses == InitAddresses /\ [][NextOnce]_vars

(* the field map *)
Opt(k, Vals) == {EmptyDoc} \cup {k :> v : v \in Vals}
DocRecords ==
    { Update(Update(Update(Update(Update("id" :> PyInt(1), a), b), c), d), e) :
        a \in Opt("name", {PyStr("acme ltd"), PyNone}),
        b \in Opt("num_empl", {PyInt(30), PyInt(120)}),
        c \in Opt("website",
                  {PyNone, PyStr("example.com"),
                   PyDict(Doc2("website", PyNone, "title", PyStr("acme home"))),
                   PyDict("website" :> PyStr("Example.COM "))}),
        d \in Opt("sector_code", {PyStr("acme home")}),
        e \in Opt("group",
                  {PyStr("acme ltd"),
                   PyDict(Doc3("hq", PyDict(Doc2("postcode", PyStr("sw1a1aa"),
                                                 "town", PyStr("Leeds"))),
                               "name", PyStr("acme ltd"),
                               "size", PyInt(3))),
                   PyDict(Doc2("hq", PyStr("sw1a1aa"), "name", PyNone))}) }
InitDoc == Init(Single(DocRecords), HelperMaps)
SpecDoc == InitDoc /\ [][NextOnce]_vars

(* batches *)
FullRecord ==
    [ id |-> PyInt(1),
      name |-> PyStr("acme ltd"),
      num_empl |-> PyInt(30),
      addresses |-> DictList(<<Set(Set(Lines1, "is_registered", PyBool(FALSE)),
                                   "uid", PyInt(7))>>),
      shareholders |-> DictList(<<Doc2("name", PyStr("ann"), "title", PyStr("mr"))>>),
      contacts |-> DictList(<<Contact("ann", <<"Other">>),
                              Contact("bob", <<"Primary Contact">>)>>),
      incorp_date |-> PyStr("2019-03-05"),
      credit |-> DictList(<<"limit" :> PyInt(1000)>>),
      financials |-> DictList(<<Period(PyInt(0), PyNone),
                                Period(PyInt(5000000), PyStr("2020-01-01"))>>),
      family |-> DictList(<<Relation("parent", 1, "United Kingdom"),
                            Relation("subsidiary", 2, "X")>>),
      website |-> PyDict("website" :> PyNone) ]
PlainRecord ==
    [ id |-> PyInt(2),
      name |-> PyStr("bob"),
      financials |-> DictList(<<Period(PyInt(2000000), PyDatetime(1)),
                                Period(PyInt(7000000), PyDatetime(2))>>),
      family |-> DictList(<<Relation("uk_top_parent", 10, "Top One")>>),
      website |-> PyStr("www.example.com") ]
UnknownIdRecord ==
    [ id |-> PyInt(3),
      num_empl |-> PyInt(120),
      score |-> PyInt(99),
      incorp_date |-> PyStr("2001-12-31"),
      family |-> DictList(<<Relation("parent", 20, "Parent Co")>>) ]
NoTypesRecord ==
    [ id |-> PyInt(2),
      contacts |-> DictList(<<Contact("ann", <<"Primary Contact">>), "name" :> PyStr("bob")>>) ]
UndatedRecord ==
    [ id |-> PyInt(1),
      financials |-> DictList(<<"turnover" :> PyInt(0)>>),
      incorp_date |-> PyStr("not-a-date") ]
WebsiteRecord ==
    [ id |-> PyInt(2), name |-> PyStr("cat"),
      website |-> PyDict("website" :> PyStr("Example.COM ")) ]
SampleRecords ==
    {FullRecord, PlainRecord, UnknownIdRecord, NoTypesRecord, UndatedRecord, WebsiteRecord}
InitBatch == Init(SeqsUpTo(SampleRecords, MaxBatch), {HelperTypical, HelperLegal})
Spec == InitBatch /\ [][Next]_vars

---------------------------------------------------------------------------
(* Properties *)

\* The step named before next_pc has just completed on results[idx] in the
\* first call.
JustDone(next_pc) == pass = 1 /\ status = "running" /\ pc = next_pc /\ idx <= Len(input)

Count(s, x) == Cardinality({i \in 1..Len(s) : s[i] = x})
IsPermutation(s, t) ==
    Len(s) = Len(t) /\ \A x \in Range(s) \cup Range(t) : Count(s, x) = Count(t, x)
MinOf(S) == CHOOSE i \in S : \A j \in S : i <= j
MaxOf(S) == CHOOSE i \in S : \A j \in S : i >= j
RECURSIVE Ascending(_)
Ascending(S) == IF S = {} THEN <<>> ELSE <<MinOf(S)>> \o Ascending(S \ {MinOf(S)})

(* C1 *)
\* The first position of s outside taken whose types hold label, 0 if none.
FirstWith(s, label, taken) ==
    LET c == {j \in (1..Len(s)) \ taken : PyStr(label) \in Range(s[j].dict["types"].list)}
    IN  IF c = {} THEN 0 ELSE MinOf(c)

ExpectedOrder(s) ==
    LET p1 == FirstWith(s, "Primary Contact", {})
        p2 == FirstWith(s, "Financial Controller", {p1})
        p3 == FirstWith(s, "Marketing Controller", {p1, p2})
        picked == SelectSeq(<<p1, p2, p3>>, LAMBDA p : p # 0)
        rest == Ascending((1..Len(s)) \ Range(picked))
    IN  [i \in 1..Len(s) |->
            IF i <= Len(picked) THEN s[picked[i]] ELSE s[rest[i - Len(picked)]]]

\* C1: when every contact has a types list, the list _order_contacts returns is
\* a permutation of the list it was given: for Primary Contact, Financial
\* Controller and Marketing Controller in turn, the first contact not yet taken
\* whose types hold the label, then the contacts left over in their original order.
C1_OrderContacts ==
    (JustDone("incorp_date") /\ "contacts" \in DOMAIN input[idx]) =>
        LET given == _beautify_people(input[idx]["contacts"].list)
            out == results[idx]["contacts"].list
        IN  /\ IsPermutation(given, out)
            /\ out = ExpectedOrder(given)

\* A contact that holds two priority labels was pulled for one of them and the
\* order changed.
C1_Witness ==
    /\ JustDone("incorp_date") /\ "contacts" \in DOMAIN input[idx]
    /\ LET given == _beautify_people(input[idx]["contacts"].list)
           out == results[idx]["contacts"].list
       IN  /\ Len(given) = 3 /\ out # given /\ out[1] = given[3]
           /\ PyStr("Financial Controller") \in Range(out[1].dict["types"].list)
           /\ PyStr("Financial Controller") \in Range(out[3].dict["types"].list)

(* C2 *)
HasDate(d) == Truthy(d["account_date"])
\* a ranks below b: an entry with no date below every dated one, dated ones by date
RanksBelow(a, b) ==
    \/ ~HasDate(a) /\ HasDate(b)
    \/ /\ HasDate(a) /\ HasDate(b)
       /\ IF IsDatetime(a["account_date"]) /\ IsDatetime(b["account_date"])
          THEN a["account_date"].datetime < b["account_date"].datetime
          ELSE IsStr(a["account_date"]) /\ IsStr(b["account_date"])
               /\ StrRank(a["account_date"].str) < StrRank(b["account_date"].str)

\* Every entry has both keys, and the dates present are all strings or all datetimes.
WellFormedPeriods(docs) ==
    /\ \A j \in 1..Len(docs) : {"turnover", "account_date"} \subseteq DOMAIN docs[j].dict
    /\ \/ \A j \in 1..Len(docs) : HasDate(docs[j].dict) => IsStr(docs[j].dict["account_date"])
       \/ \A j \in 1..Len(docs) : HasDate(docs[j].dict) => IsDatetime(docs[j].dict["account_date"])

\* C2: for a record with a financials list, the financials step does not raise
\* and last_revenue is the entry of maximum account_date among those of truthy
\* turnover, an entry with no account_date ranking below every dated one; it is
\* the integer 0 when no entry has a truthy turnover.
C2_LastRevenue ==
    ( /\ pass = 1 /\ idx <= Len(input) /\ "financials" \in DOMAIN input[idx]
      /\ WellFormedPeriods(input[idx]["financials"].list)
      /\ \/ status = "running" /\ pc = "family"
         \/ status = "raised" /\ pc = "financials" ) =>
        LET docs == input[idx]["financials"].list
            cands == {j \in 1..Len(docs) : Truthy(docs[j].dict["turnover"])}
            last == results[idx]["last_revenue"]
        IN  /\ status = "running"
            /\ IF cands = {} THEN last = PyInt(0)
               ELSE /\ IsRef(last) /\ last.ref \in cands
                    /\ \A m \in cands : ~RanksBelow(docs[last.ref].dict, docs[m].dict)

(* C10 *)
\* C10: last_revenue is the selected entry of financials itself, so after the
\* step its monetary fields hold the money-formatted values, while
\* last_revenue_range and last_revenue_headline were derived from the raw ones.
C10_LastRevenueAliased ==
    ( /\ JustDone("family") /\ "financials" \in DOMAIN input[idx]
      /\ results[idx]["last_revenue"] # PyInt(0) ) =>
        LET last == results[idx]["last_revenue"]
            doc == Deref(results[idx], last).dict
        IN  \E j \in 1..Len(input[idx]["financials"].list) :
                LET raw == input[idx]["financials"].list[j].dict
                IN  /\ doc = results[idx]["financials"].list[j].dict
                    /\ \A k \in DOMAIN raw \cap Range(monetary_fields.financials) :
                           doc[k] = money(raw[k]) /\ doc[k] # raw[k]
                    /\ results[idx]["last_revenue_range"] = revenue_range(PyDict(raw), "-")
                    /\ results[idx]["last_revenue_headline"] =
                           revenue_range(PyDict(raw), " to ")

C10_Witness ==
    /\ JustDone("family") /\ "financials" \in DOMAIN input[idx]
    /\ IsRef(results[idx]["last_revenue"])
    /\ LET doc == Deref(results[idx], results[idx]["last_revenue"]).dict
       IN  /\ doc["turnover"] = PyStr("GBP 5000000")
           /\ Get(doc, "profit", PyNone) = PyStr("GBP 100")
           /\ results[idx]["last_revenue_range"] = PyStr("5m-10m")
           /\ Len(results[idx]["financials"].list) = 3

(* C3 *)
LabelIs(d, label) == d.dict["label"] = PyStr(label)

\* C3: after the family step the record has no family key, and the five derived
\* keys hold: the cid and name of the last uk_top_parent entry, the cid and name
\* of the parent entry with "United Kingdom" replaced by "No UK Parent", and the
\* entries of any other label in their original order; None, "None" and the
\* empty list when there is no such entry or the family is empty or None.
C3_Family ==
    (JustDone("website") /\ "family" \in DOMAIN input[idx]) =>
        LET fam == input[idx]["family"]
            l == IF Truthy(fam) THEN fam.list ELSE <<>>
            tops == {j \in 1..Len(l) : LabelIs(l[j], "uk_top_parent")}
            pars == {j \in 1..Len(l) : LabelIs(l[j], "parent")}
            r == results[idx]
        IN  /\ "family" \notin DOMAIN r
            /\ {"uk_top_parent_cid", "uk_top_parent_name", "parent_cid", "parent_name",
                "subsidiaries"} \subseteq DOMAIN r
            /\ r["uk_top_parent_cid"] =
                   IF tops = {} THEN PyNone ELSE l[MaxOf(tops)].dict["cid"]
            /\ r["uk_top_parent_name"] =
                   IF tops = {} THEN PyStr("None") ELSE l[MaxOf(tops)].dict["name"]
            /\ r["parent_cid"] = IF pars = {} THEN PyNone ELSE l[MaxOf(pars)].dict["cid"]
            /\ r["parent_name"] =
                   IF pars = {} THEN PyStr("None")
                   ELSE IF l[MaxOf(pars)].dict["name"] = PyStr("United Kingdom")
                   THEN PyStr("No UK Parent")
                   ELSE l[MaxOf(pars)].dict["name"]
            /\ r["subsidiaries"] =
                   PyList(SelectSeq(l, LAMBDA d : ~LabelIs(d, "uk_top_parent")
                                                  /\ ~LabelIs(d, "parent")))

C3_Witness ==
    /\ JustDone("website") /\ "family" \in DOMAIN input[idx]
    /\ IsList(input[idx]["family"])
    /\ Len(input[idx]["family"].list) = 3
    /\ LabelIs(input[idx]["family"].list[1], "uk_top_parent")
    /\ LabelIs(input[idx]["family"].list[2], "uk_top_parent")
    /\ results[idx]["uk_top_parent_name"] = PyStr("Top Two")
    /\ results[idx]["parent_name"] = PyStr("No UK Parent")
    /\ results[idx]["subsidiaries"] = PyList(<<>>)

(* C4 *)
LineKeys ==
    << "address_line_1", "address_line_2", "address_line_3", "address_line_4",
       "department_name", "building", "po_box", "street_address", "locality",
       "town", "county" >>

\* C4: after the addresses step every address has address, postcode and
\* is_registered and no uid; one whose is_registered was falsy or absent has
\* none of the eleven line keys, one whose is_registered was truthy keeps each
\* line key it had with its value; the address string is built from the line
\* values that were present, in the fixed key order.
C4_Addresses ==
    (JustDone("shareholders") /\ "addresses" \in DOMAIN input[idx]) =>
        \A j \in 1..Len(input[idx]["addresses"].list) :
            LET a == input[idx]["addresses"].list[j].dict
                b == results[idx]["addresses"].list[j].dict
                present == SelectSeq(LineKeys, LAMBDA k : k \in DOMAIN a)
                vals == [i \in 1..Len(present) |-> a[present[i]]]
            IN  /\ {"address", "postcode", "is_registered"} \subseteq DOMAIN b
                /\ "uid" \notin DOMAIN b
                /\ IF Truthy(Get(a, "is_registered", PyNone))
                   THEN \A k \in Range(LineKeys) \cap DOMAIN a :
                            k \in DOMAIN b /\ b[k] = a[k]
                   ELSE Range(LineKeys) \cap DOMAIN b = {}
                /\ b["address"] = addresses(b["postcode"], vals)

C4_Witness ==
    /\ JustDone("shareholders") /\ "addresses" \in DOMAIN input[idx]
    /\ Len(input[idx]["addresses"].list) = 2
    /\ LET a == input[idx]["addresses"].list
           b == results[idx]["addresses"].list
       IN  /\ Get(a[1].dict, "is_registered", PyNone) = PyBool(FALSE)
           /\ "address_line_1" \in DOMAIN a[1].dict
           /\ "address_line_1" \notin DOMAIN b[1].dict
           /\ b[1].dict["address"] = PyStr("1 High St, Floor 2, PO 7, Soho, Leeds, ")
           /\ Get(a[2].dict, "is_registered", PyNone) = PyBool(TRUE)
           /\ "uid" \in DOMAIN a[2].dict
           /\ b[2].dict["address"] = PyStr("Unit 4, 2 Low Rd, Kent, ")
           /\ b[2].dict["county"] = PyStr("Kent")

(* C9 *)
\* post is pre beautified under helpers hs: the same keys at every level, each
\* value formatted, recursed into or left alone as its helper says.
RECURSIVE Beautified(_, _, _)
Beautified(pre, post, hs) ==
    /\ DOMAIN post = DOMAIN pre
    /\ \A k \in DOMAIN pre :
           IF k \notin DOMAIN hs THEN post[k] = pre[k]
           ELSE IF "fn" \in DOMAIN hs[k] THEN post[k] = Call(hs[k], pre[k])
           ELSE IF IsDict(pre[k])
           THEN IsDict(post[k]) /\ Beautified(pre[k].dict, post[k].dict, hs[k].map)
           ELSE post[k] = pre[k]

\* C9: _beautify_doc returns a document with the key set of doc at every level
\* it visits: a key with no helper keeps its value, a key with a formatter gets
\* the formatted value, a key with a nested map gets the recursive result when
\* its value is a document and keeps its value when it is not; merging the
\* result into the record adds no key and removes none.
C9_BeautifyDoc ==
    JustDone("score") =>
        LET pre == CopyKeys(input[idx], 1)
        IN  /\ Beautified(pre, _beautify_doc(pre, helper_map), helper_map)
            /\ Beautified(pre, results[idx], helper_map)

\* A two-level nested map met a nested document, and a nested map met a string.
C9_Witness ==
    /\ JustDone("score")
    /\ "group" \in DOMAIN helper_map /\ "group" \in DOMAIN input[idx]
    /\ IsDict(input[idx]["group"]) /\ IsDict(input[idx]["group"].dict["hq"])
    /\ results[idx]["group"].dict["hq"].dict["postcode"] = PyStr("SW1A 1AA")
    /\ results[idx]["group"].dict["hq"].dict["town"] = PyStr("Leeds")
    /\ results[idx]["group"].dict["size"] = PyInt(3)
    /\ Get(results[idx], "name", PyNone) = PyStr("Acme Ltd")
    /\ "website" \in DOMAIN input[idx] /\ results[idx]["website"] = input[idx]["website"]

(* C5 *)
\* Record i has been through the field map step of the first call.
PastBeautify(i) ==
    /\ pass = 1 /\ i <= Len(input)
    /\ \/ status = "returned"
       \/ idx > i
       \/ idx = i /\ ~(pc \in {"copy", "beautify_doc"})

\* The value v under key k as the field map step leaves it.
FieldMapped(k, v) == _beautify_doc(k :> v, helper_map)[k]

\* C5 as stated: after transform legal_name is the value name had before the
\* call and employee_range the value num_empl had, None when the key was absent.
C5_CopiesKeepOriginal ==
    (pass = 1 /\ status = "returned") =>
        \A i \in 1..Len(input) :
            /\ "legal_name" \in DOMAIN results[i]
            /\ results[i]["legal_name"] = Get(input[i], "name", PyNone)
            /\ "employee_range" \in DOMAIN results[i]
            /\ results[i]["employee_range"] = Get(input[i], "num_empl", PyNone)

\* C5 amended: the copy step sets legal_name to the value of name and
\* employee_range to the value of num_empl (None when absent) and removes neither
\* name nor num_empl; from the field map step on the two copies hold those values
\* as the field map formats them under legal_name and employee_range (unchanged
\* when it has no entry for the key), and no later step writes them.
C5_CopiesThenFieldMap ==
    /\ JustDone("beautify_doc") =>
           /\ {"legal_name", "employee_range"} \subseteq DOMAIN results[idx]
           /\ results[idx]["legal_name"] = Get(input[idx], "name", PyNone)
           /\ results[idx]["employee_range"] = Get(input[idx], "num_empl", PyNone)
           /\ \A k \in {"name", "num_empl"} \cap DOMAIN input[idx] :
                  k \in DOMAIN results[idx] /\ results[idx][k] = input[idx][k]
    /\ \A i \in 1..Len(input) :
           PastBeautify(i) =>
               /\ {"legal_name", "employee_range"} \subseteq DOMAIN results[i]
               /\ results[i]["legal_name"] =
                      FieldMapped("legal_name", Get(input[i], "name", PyNone))
               /\ results[i]["employee_range"] =
                      FieldMapped("employee_range", Get(input[i], "num_empl", PyNone))
               /\ \A k \in {"name", "num_empl"} \cap DOMAIN input[i] : k \in DOMAIN results[i]

\* transform returned and the field map had formatted employee_range.
C5_Witness ==
    /\ pass = 1 /\ status = "returned" /\ Len(input) = 1
    /\ "employee_range" \in DOMAIN helper_map
    /\ Get(input[1], "num_empl", PyNone) = PyInt(30)
    /\ results[1]["employee_range"] = PyStr("1-49")
    /\ results[1]["legal_name"] = PyStr("acme ltd")
    /\ results[1]["name"] = PyStr("Acme Ltd")

(* C6 *)
\* C6: for a record whose id the score lookup knows, no missing optional field,
\* of the record or of a nested entry, makes transform raise: no step ends the
\* call with a KeyError.
C6_MissingFieldsSkipped ==
    ~( /\ pass = 1 /\ status = "raised" /\ error = "KeyError"
       /\ "id" \in DOMAIN input[idx] /\ ScoreKnown(input[idx]["id"]) )

(* C7 *)
LookupRaises(r) == "id" \in DOMAIN r /\ ~ScoreKnown(r["id"])

\* The record r as the steps before the lookup leave it.
BeforeScore(r) == transform_beautify_doc(transform_copy(r).rec, helper_map).rec

\* The record r as the eleven steps leave it when none of them raises.
AllSteps(r) ==
    LET s3 == transform_score(BeforeScore(r)).rec
        s4 == transform_addresses(s3).rec
        s5 == transform_shareholders(s4).rec
        s6 == transform_contacts(s5).rec
        s7 == transform_incorp_date(s6).rec
        s8 == transform_credit(s7).rec
        s9 == transform_financials(s8).rec
        s10 == transform_family(s9).rec
    IN  transform_website(s10).rec

\* C7: when the score lookup raises for a record, the call ends there with that
\* error and never returns: the record keeps what the two steps before the lookup
\* did and gets no score, no later step runs on it, no record after it is
\* touched, and every record before it went through all the steps.
C7_LookupFailureEndsCall ==
    \A i \in 1..Len(input) :
        (pass = 1 /\ LookupRaises(input[i])) =>
            /\ status # "returned"
            /\ idx <= i
            /\ idx = i => pc \in {"copy", "beautify_doc", "score"}
            /\ (idx = i /\ pc = "score" /\ status # "running") =>
                   /\ status = "raised" /\ error = "LookupError"
                   /\ results[i] = BeforeScore(input[i])
                   /\ ("score" \in DOMAIN results[i]) = ("score" \in DOMAIN input[i])
                   /\ \A k \in {"score", "family", "incorp_date"} \cap DOMAIN input[i] :
                          k \in DOMAIN results[i] /\ results[i][k] = input[i][k]
                   /\ "last_revenue" \notin DOMAIN results[i]
                   /\ \A j \in (i + 1)..Len(input) : results[j] = input[j]
                   /\ \A j \in 1..(i - 1) :
                          /\ results[j] = AllSteps(input[j])
                          /\ "score" \in DOMAIN results[j]
                          /\ "family" \notin DOMAIN results[j]
                          /\ "financials" \in DOMAIN input[j] =>
                                 "last_revenue" \in DOMAIN results[j]

\* The lookup raised on the second of three records.
C7_Witness ==
    /\ pass = 1 /\ status = "raised" /\ error = "LookupError" /\ pc = "score"
    /\ Len(input) = 3 /\ idx = 2
    /\ "score" \in DOMAIN results[1] /\ "family" \in DOMAIN input[1]
    /\ results[2]["score"] = PyInt(99)
    /\ results[2]["employee_range"] = PyStr("50+")
    /\ "family" \in DOMAIN results[2]
    /\ "family" \in DOMAIN input[3] /\ results[3] = input[3]

(* C8 *)
\* C8: a second transform of the output of a first successful transform does not
\* raise, for a record whose financials entries all have turnover and account_date.
C8_SecondPassCompletes ==
    ~( /\ pass = 2 /\ status = "raised"
       /\ "financials" \in DOMAIN input[idx] =>
              \A j \in 1..Len(input[idx]["financials"].list) :
                  {"turnover", "account_date"} \subseteq
                      DOMAIN input[idx]["financials"].list[j].dict )

=============================================================================
